---------------------------- MODULE Spec2Model ----------------------------
(***************************************************************************)
(* A model of the API monitoring dashboard (yamayuba00/cron-api-explorer): *)
(*   - the ApiClient singleton of src/utils/apiClient.ts,                  *)
(*   - the connection, query and refresh state of pages/Dashboard.tsx,     *)
(*   - the render-time statistics of VisualAnomalyDetector, TrendLearning  *)
(*     and AdvancedAnalytics.                                              *)
(*                                                                         *)
(* Conventions.  A JavaScript string that the code operates on (base URL,  *)
(* query values, JSON text) is a tuple of one-character strings; a string  *)
(* that is only passed around is a TLA+ string.  A JavaScript value whose  *)
(* type matters is a tagged record [t |-> ...].  JavaScript numbers are    *)
(* exact rationals here: IEEE rounding is not modelled.                    *)
(***************************************************************************)
EXTENDS Integers, Sequences, FiniteSets, TLC

VARIABLES
    \* ---- pages/Dashboard.tsx: React state of the Dashboard component
    mounted,          \* the component is mounted
    useApiData,       \* useState(false)
    apiConfig,        \* useState<ApiConfig | null>(null)
    isRealTime,       \* useState(true)
    refreshInterval,  \* useState(30), seconds
    statusFilter,     \* useState('all')
    \* ---- browser and module singletons
    storage,          \* localStorage['api_config']: JSON text or absent
    clientConfig,     \* apiClient.config (utils/apiClient.ts)
    \* ---- @tanstack/react-query: the cache of the 'cronjobData' queries
    inflight,         \* query keys whose queryFn promise is pending
    cached,           \* query keys that hold the data of a settled request
    elapsed,          \* seconds since the refetchInterval timer was armed
    \* ---- what the last operation did
    lastOp,           \* name of the last operation
    sent,             \* HTTP requests issued by the last operation
    callResult,       \* outcome of the last direct ApiClient call
    \* ---- the analysis tabs (data is the query's result list)
    data,             \* CronjobData[] handed to the analysis components
    tab,              \* the active analysis tab
    anomalies,        \* VisualAnomalyDetector's useMemo result
    predictions,      \* TrendLearning's useMemo result (predictions)
    percentiles,      \* AdvancedAnalytics' percentiles
    analysis,         \* LogAnalysisAI's useMemo result
    \* ---- alerts and notifications
    liveAlerts,       \* Dashboard's liveAlerts state
    toasts,           \* titles of the toasts raised by the last operation
    notify,           \* position of the anomaly notification cycle
    \* ---- SnapshotManager
    snapshots,        \* the snapshots state
    snapshotStore,    \* localStorage['dashboard_snapshots']
    now               \* Date.now(), in milliseconds

vars == <<mounted, useApiData, apiConfig, isRealTime, refreshInterval,
          statusFilter, storage, clientConfig, inflight, cached, elapsed,
          lastOp, sent, callResult, data, tab, anomalies, predictions,
          percentiles, analysis, liveAlerts, toasts, notify, snapshots,
          snapshotStore, now>>

dashVars == <<mounted, useApiData, apiConfig, isRealTime, refreshInterval,
              statusFilter, storage, inflight, cached, elapsed>>

statVars == <<data, tab, anomalies, predictions, percentiles>>

extVars == <<analysis, liveAlerts, toasts, notify, snapshots, snapshotStore,
             now>>

-----------------------------------------------------------------------------
(* JavaScript values *)

Undef == [t |-> "undefined"]
JsNull == [t |-> "null"]
Num(n) == [t |-> "number", v |-> n]
Str(s) == [t |-> "string", v |-> s]
Arr(s) == [t |-> "array", v |-> s]
\* a plain object: a function from its own keys to values
Obj(f) == [t |-> "object", v |-> f]

\* ToBoolean: undefined, null, 0 and '' are falsy; arrays and objects truthy
Truthy(x) ==
    CASE x.t = "undefined" -> FALSE
      [] x.t = "null" -> FALSE
      [] x.t = "number" -> x.v # 0
      [] x.t = "string" -> Len(x.v) > 0
      [] x.t = "boolean" -> x.v
      [] OTHER -> TRUE

DigitChar == <<"0", "1", "2", "3", "4", "5", "6", "7", "8", "9">>

\* Number.prototype.toString for a non-negative integer
RECURSIVE NumberToString(_)
NumberToString(n) ==
    IF n < 10 THEN <<DigitChar[n + 1]>>
    ELSE NumberToString(n \div 10) \o <<DigitChar[(n % 10) + 1]>>

DigitValue(c) == (CHOOSE i \in 1..10 : DigitChar[i] = c) - 1

IsDigits(s) ==
    /\ Len(s) > 0
    /\ \A i \in 1..Len(s) : \E d \in 1..10 : DigitChar[d] = s[i]

\* the value of a JSON number token (digits only)
RECURSIVE ParseNumber(_)
ParseNumber(s) ==
    IF Len(s) = 0 THEN 0
    ELSE 10 * ParseNumber(SubSeq(s, 1, Len(s) - 1)) + DigitValue(s[Len(s)])

-----------------------------------------------------------------------------
(* utils/apiClient.ts *)

DefaultHeaders ==
    <<<<"Content-Type", "application/json">>, <<"Accept", "application/json">>>>

\* the initial value of ApiClient.config
InitialConfig ==
    [ baseUrl |-> <<>>,
      endpoints |-> [ transactionHistory |-> "/api/transaction-history",
                      transactionDetail |-> "/api/transaction" ],
      defaultParams |-> [limit |-> 20, page |-> 1],
      headers |-> DefaultHeaders ]

\* an own property of a parameter object, undefined when it has none
Get(o, k) == IF k \in DOMAIN o THEN o[k] ELSE Undef

\* object spread { ...a, ...b }: b's own properties win, undefined included
Spread(a, b) ==
    [k \in (DOMAIN a) \cup (DOMAIN b) |-> IF k \in DOMAIN b THEN b[k] ELSE a[k]]

DefaultParamsObject(config) ==
    [ limit |-> Num(config.defaultParams.limit),
      page |-> Num(config.defaultParams.page) ]

\* String(v) of a query value
QueryValue(x) == IF x.t = "number" THEN NumberToString(x.v) ELSE x.v

\* queryParams.append(name, value) when the value is truthy
AppendIf(q, name, x) == IF Truthy(x) THEN Append(q, <<name, QueryValue(x)>>) ELSE q

\* the URLSearchParams built by fetchTransactionHistory
BuildQuery(config, params) ==
    LET finalParams == Spread(DefaultParamsObject(config), params)
        q1 == AppendIf(<<>>, "limit", Get(finalParams, "limit"))
        q2 == AppendIf(q1, "page", Get(finalParams, "page"))
        q3 == AppendIf(q2, "start_date", Get(finalParams, "startDate"))
        q4 == AppendIf(q3, "end_date", Get(finalParams, "endDate"))
        q5 == AppendIf(q4, "status", Get(finalParams, "status"))
        q6 == AppendIf(q5, "feature", Get(finalParams, "feature"))
    IN  AppendIf(q6, "method", Get(finalParams, "method"))

Return(v, reqs) == [outcome |-> "return", value |-> v, requests |-> reqs]
Throw(name, msg, reqs) ==
    [outcome |-> "throw", value |-> [name |-> name, message |-> msg],
     requests |-> reqs]

\* result.data of the parsed body: a property read of null throws a
\* TypeError, of a number or a string gives undefined
HasData(body) == body.t = "object" /\ "data" \in DOMAIN body.v
DataOf(body) == IF HasData(body) THEN body.v["data"] ELSE Undef
SuccessOf(body) ==
    IF body.t = "object" /\ "success" \in DOMAIN body.v
    THEN body.v["success"] ELSE Undef

\* lines 215-235: from the HTTP response to the returned list or the error
HandleHistoryResponse(resp, reqs) ==
    IF resp.kind = "network" THEN Throw("TypeError", <<"Failed to fetch">>, reqs)
    ELSE IF ~resp.ok
    THEN Throw("Error", <<"API Error:", resp.status, resp.statusText>>, reqs)
    ELSE IF resp.body.t = "unparsable"
    THEN Throw("SyntaxError", <<"Unexpected token">>, reqs)
    ELSE IF resp.body.t = "array" THEN Return(resp.body.v, reqs)
    ELSE IF resp.body.t = "null"
    THEN Throw("TypeError", <<"Cannot read properties of null">>, reqs)
    ELSE IF Truthy(DataOf(resp.body)) /\ DataOf(resp.body).t = "array"
    THEN Return(DataOf(resp.body).v, reqs)
    ELSE IF Truthy(SuccessOf(resp.body)) /\ Truthy(DataOf(resp.body))
    THEN Return(<<DataOf(resp.body)>>, reqs)
    ELSE Throw("Error", <<"Invalid API response format">>, reqs)

HistoryRequest(config, params) ==
    [ base |-> config.baseUrl,
      path |-> config.endpoints.transactionHistory,
      query |-> BuildQuery(config, params),
      headers |-> config.headers ]

Await(reqs) == [outcome |-> "await", requests |-> reqs]

\* fetchTransactionHistory up to its await of fetch(url): lines 186-213
StartHistory(config, params) ==
    IF Len(config.baseUrl) = 0
    THEN Throw("Error", <<"API base URL not set">>, <<>>)
    ELSE Await(<<HistoryRequest(config, params)>>)

\* async fetchTransactionHistory(params), the fetch settling with resp
fetchTransactionHistory(config, params, resp) ==
    LET s == StartHistory(config, params)
    IN  IF s.outcome = "throw" THEN s
        ELSE HandleHistoryResponse(resp, s.requests)

\* GET `${baseUrl}${endpoints.transactionDetail}/${id}`
DetailRequest(config, id) ==
    [ base |-> config.baseUrl,
      path |-> config.endpoints.transactionDetail,
      id |-> id,
      query |-> <<>>,
      headers |-> config.headers ]

\* a fetchTransactionById without the base-URL guard
StartByIdUnguarded(config, id) == Await(<<DetailRequest(config, id)>>)

\* fetchTransactionById up to its await of fetch(url): lines 239-248
StartById(config, id) ==
    IF Len(config.baseUrl) = 0
    THEN Throw("Error", <<"API base URL not set">>, <<>>)
    ELSE Await(<<DetailRequest(config, id)>>)

\* lines 250-255: returns result.data || result
HandleDetailResponse(resp, reqs) ==
    IF resp.kind = "network" THEN Throw("TypeError", <<"Failed to fetch">>, reqs)
    ELSE IF ~resp.ok
    THEN Throw("Error", <<"API Error:", resp.status, resp.statusText>>, reqs)
    ELSE IF resp.body.t = "unparsable"
    THEN Throw("SyntaxError", <<"Unexpected token">>, reqs)
    ELSE IF resp.body.t = "null"
    THEN Throw("TypeError", <<"Cannot read properties of null">>, reqs)
    ELSE IF Truthy(DataOf(resp.body)) THEN Return(DataOf(resp.body), reqs)
    ELSE Return(resp.body, reqs)

\* Math.floor in place of Math.ceil
FloorDiv(a, b) ==
    IF b = 0 THEN (IF a = 0 THEN [t |-> "NaN"] ELSE [t |-> "Infinity"])
    ELSE Num(a \div b)

\* Math.ceil(a / b) for a >= 0: Infinity for a / 0, NaN for 0 / 0
CeilDiv(a, b) ==
    IF b = 0 THEN (IF a = 0 THEN [t |-> "NaN"] ELSE [t |-> "Infinity"])
    ELSE Num((a + b - 1) \div b)

\* fetchPaginatedData's parameter object { page, limit, ...filters }
PaginatedParams(page, limit, filters) ==
    Spread([page |-> Num(page), limit |-> Num(limit)], filters)

\* lines 272-286: the metadata around the list, or the error thrown again
PaginatedResult(page, limit, r) ==
    IF r.outcome # "return" THEN r
    ELSE Return([ data |-> r.value,
                  total |-> Len(r.value),
                  currentPage |-> page,
                  totalPages |-> CeilDiv(Len(r.value), limit) ],
                r.requests)

\* setBaseUrl(url): strips one trailing slash
StripSlash(url) ==
    IF Len(url) > 0 /\ url[Len(url)] = "/" THEN SubSeq(url, 1, Len(url) - 1)
    ELSE url


-----------------------------------------------------------------------------
(* Inputs of the ApiClient calls *)

MaxLimit == 2      \* limit and page arguments range over 0..MaxLimit
MaxRecords == 2    \* a response body lists at most MaxRecords records

Absent == [t |-> "absent"]
Bool(b) == [t |-> "boolean", v |-> b]

UrlA == <<"a">>
UrlB == <<"b">>

ConfigA == [InitialConfig EXCEPT !.baseUrl = UrlA]
ConfigB ==
    [ baseUrl |-> UrlB,
      endpoints |-> [ transactionHistory |-> "/v2/history",
                      transactionDetail |-> "/v2/detail" ],
      defaultParams |-> [limit |-> 50, page |-> 2],
      headers |-> DefaultHeaders \o <<<<"Authorization", "Bearer t">>>> ]
\* a configuration whose base URL is empty
ConfigBlank == [ConfigB EXCEPT !.baseUrl = <<>>]

ParamNames ==
    {"limit", "page", "startDate", "endDate", "status", "feature", "method"}

\* a parameter object with the properties that are not Absent
MkObject(choice) ==
    [k \in {n \in DOMAIN choice : choice[n].t # "absent"} |-> choice[k]]

NumberChoices == {Absent, Undef} \cup {Num(n) : n \in 0..MaxLimit}
StringChoices == {Absent, Undef, Str(<<>>), Str(<<"5", "0", "0">>)}
FlagChoices == {Absent, Str(<<"x">>)}

ParamObjects ==
    { MkObject([limit |-> l, page |-> p, startDate |-> sd, endDate |-> ed,
                status |-> st, feature |-> f, method |-> m]) :
        l \in NumberChoices, p \in NumberChoices, sd \in FlagChoices,
        ed \in FlagChoices, st \in StringChoices, f \in FlagChoices,
        m \in FlagChoices }

FilterObjects ==
    { MkObject([status |-> st, feature |-> f]) :
        st \in StringChoices, f \in FlagChoices }

Rec(i) == Obj([Id |-> Num(i)])
RecordList(n) == [i \in 1..n |-> Rec(i)]
RecordLists == {RecordList(n) : n \in 0..MaxRecords}

DataChoices ==
    {Absent, JsNull, Str(<<>>), Num(0), Rec(1)} \cup {Arr(l) : l \in RecordLists}
SuccessChoices == {Absent, Bool(FALSE), Bool(TRUE)}

Bodies ==
    {[t |-> "unparsable"], JsNull, Num(7), Str(<<"o", "k">>)}
      \cup {Arr(l) : l \in RecordLists}
      \cup {Obj(MkObject([data |-> d, success |-> s])) :
              d \in DataChoices, s \in SuccessChoices}

Responses ==
    {[kind |-> "network"]}
      \cup {[kind |-> "http", ok |-> FALSE, status |-> st[1], statusText |-> st[2],
             body |-> JsNull] :
              st \in {<<"500", "Internal Server Error">>, <<"404", "Not Found">>}}
      \cup {[kind |-> "http", ok |-> TRUE, status |-> "200", statusText |-> "OK",
             body |-> b] : b \in Bodies}

NoCall == [phase |-> "none"]

-----------------------------------------------------------------------------
(* The ApiClient used on its own: SpecApi *)

ApiUnchanged == UNCHANGED <<dashVars, statVars, extVars>>

\* setConfig(config)
ApiSetConfig(c) ==
    /\ callResult.phase # "pending"
    /\ clientConfig' = c
    /\ lastOp' = "setConfig"
    /\ sent' = <<>>
    /\ callResult' = NoCall
    /\ ApiUnchanged

\* setBaseUrl(url)
ApiSetBaseUrl(url) ==
    /\ callResult.phase # "pending"
    /\ clientConfig' = [clientConfig EXCEPT !.baseUrl = StripSlash(url)]
    /\ lastOp' = "setBaseUrl"
    /\ sent' = <<>>
    /\ callResult' = NoCall
    /\ ApiUnchanged

\* a call up to its first await: either it has thrown, or its request is out.
\* A call leaves the client as it found it, so one call is followed per
\* configuration of the client.
StartCall(op, args, s) ==
    /\ callResult.phase = "none"
    /\ lastOp' = op
    /\ sent' = s.requests
    /\ callResult' =
         IF s.outcome = "throw"
         THEN [phase |-> "done", op |-> op, args |-> args,
               baseUrl |-> clientConfig.baseUrl, result |-> s]
         ELSE [phase |-> "pending", op |-> op, args |-> args,
               baseUrl |-> clientConfig.baseUrl, requests |-> s.requests]
    /\ UNCHANGED clientConfig
    /\ ApiUnchanged

ApiCallHistory(params) ==
    StartCall("fetchTransactionHistory", [params |-> params],
              StartHistory(clientConfig, params))

ApiCallById(id) ==
    StartCall("fetchTransactionById", [id |-> id], StartById(clientConfig, id))

\* fetchPaginatedData(page, limit, filters): the error of the inner call is
\* caught, logged and thrown again
ApiCallPaginated(page, limit, filters) ==
    StartCall("fetchPaginatedData",
              [page |-> page, limit |-> limit, filters |-> filters],
              PaginatedResult(page, limit,
                  StartHistory(clientConfig,
                               PaginatedParams(page, limit, filters))))

\* the pending call's fetch settles with resp and the call runs to its end
ApiRespond(resp) ==
    /\ callResult.phase = "pending"
    /\ LET a == callResult.args
           reqs == callResult.requests
           r == CASE callResult.op = "fetchTransactionHistory" ->
                       HandleHistoryResponse(resp, reqs)
                  [] callResult.op = "fetchTransactionById" ->
                       HandleDetailResponse(resp, reqs)
                  [] OTHER ->
                       PaginatedResult(a.page, a.limit,
                                       HandleHistoryResponse(resp, reqs))
       IN  callResult' = [phase |-> "done", op |-> callResult.op,
                          \* the parameter object is dead once the URL is built
                          args |-> IF callResult.op = "fetchTransactionHistory"
                                   THEN [none |-> TRUE] ELSE a,
                          baseUrl |-> callResult.baseUrl, resp |-> resp,
                          requests |-> reqs, result |-> r]
    /\ lastOp' = "respond"
    /\ sent' = <<>>
    /\ UNCHANGED clientConfig
    /\ ApiUnchanged

-----------------------------------------------------------------------------
(* localStorage['api_config']: JSON text as a sequence of tokens, each a    *)
(* tuple of strings                                                         *)

NoItem == <<>>                       \* getItem gives null (or '')
NullText == <<<<"null">>>>           \* the JSON text null
GarbageText == <<<<"{">>>>           \* a text JSON.parse rejects

\* JSON.stringify(config)
JSONstringify(c) ==
    << <<"{">>,
       <<"baseUrl">>, c.baseUrl,
       <<"transactionHistory">>, <<c.endpoints.transactionHistory>>,
       <<"transactionDetail">>, <<c.endpoints.transactionDetail>>,
       <<"limit">>, NumberToString(c.defaultParams.limit),
       <<"page">>, NumberToString(c.defaultParams.page),
       <<"headers">> >> \o c.headers \o << <<"}">> >>

ConfigTextOk(x) ==
    /\ Len(x) >= 13
    /\ x[1] = <<"{">> /\ x[Len(x)] = <<"}">>
    /\ x[2] = <<"baseUrl">> /\ x[4] = <<"transactionHistory">>
    /\ x[6] = <<"transactionDetail">> /\ x[8] = <<"limit">>
    /\ x[10] = <<"page">> /\ x[12] = <<"headers">>
    /\ Len(x[5]) = 1 /\ Len(x[7]) = 1
    /\ IsDigits(x[9]) /\ IsDigits(x[11])
    /\ \A i \in 13..(Len(x) - 1) : Len(x[i]) = 2

\* JSON.parse(text): the value, or the SyntaxError
JSONparse(x) ==
    IF x = NullText THEN [ok |-> TRUE, value |-> JsNull]
    ELSE IF ConfigTextOk(x)
    THEN [ok |-> TRUE,
          value |-> [ baseUrl |-> x[3],
                      endpoints |-> [ transactionHistory |-> x[5][1],
                                      transactionDetail |-> x[7][1] ],
                      defaultParams |-> [ limit |-> ParseNumber(x[9]),
                                          page |-> ParseNumber(x[11]) ],
                      headers |-> SubSeq(x, 13, Len(x) - 1) ]]
    ELSE [ok |-> FALSE, value |-> JsNull]

-----------------------------------------------------------------------------
(* pages/Dashboard.tsx with @tanstack/react-query's useQuery               *)
(*                                                                         *)
(* An action is one event handler together with the render and the effects *)
(* that follow it.  A handler runs in the closure of the last render: the  *)
(* unprimed variables.  refetch() runs the query function of that render   *)
(* whether or not the query is enabled.                                    *)

TickSeconds == 5
RefreshChoices == {5, 10, 30, 60}     \* the SelectItems of the interval select
StatusAll == <<"a", "l", "l">>
StatusChoices == {StatusAll, <<"5", "0", "0">>}

\* configurations the connection form can submit: the base URL is not blank
FormConfigs == {ConfigA, ConfigB}

\* the options' enabled: useApiData && !!apiConfig
Enabled(use, cfg) == use /\ cfg # JsNull

\* the queryKey (timeRange, featureFilter and methodFilter behave as
\* statusFilter does and are left at their initial values)
QueryKey(use, cfg, sf) == [cfg |-> cfg, use |-> use, status |-> sf]

\* the parameter object fetchCronjobData passes: lines 86-92
DashboardParams(sf) ==
    [ limit |-> Num(1000),
      startDate |-> Str(<<"t">>),
      status |-> IF sf # StatusAll THEN Str(sf) ELSE Undef,
      feature |-> Undef,
      method |-> Undef ]

\* fetchCronjobData in the closure (use, cfg, sf), up to its await: the
\* requests it issues and the config it leaves in apiClient
fetchCronjobData(use, cfg, sf, client) ==
    IF ~use \/ cfg = JsNull THEN [requests |-> <<>>, client |-> client]
    ELSE LET s == StartHistory(cfg, DashboardParams(sf))
         IN  [ requests |-> IF s.outcome = "await" THEN s.requests ELSE <<>>,
               client |-> cfg ]

\* the query cache and what one operation has done so far
CacheNow == [inflight |-> inflight, cached |-> cached,
             client |-> clientConfig, sent |-> <<>>]

\* Query.fetch for the key of the closure (use, cfg, sf): a fetch already
\* pending is joined, unless it is a refetch (cancelRefetch) of a query that
\* holds data; otherwise the query function runs.  A query function that
\* issues no request resolves at once with []: such a query is never pending,
\* and whether it holds data decides nothing, so it is not recorded.
ExecuteFetch(q, use, cfg, sf, cancelRefetch) ==
    LET k == QueryKey(use, cfg, sf)
        f == fetchCronjobData(use, cfg, sf, q.client)
    IN  IF k \in q.inflight /\ ~(cancelRefetch /\ k \in q.cached) THEN q
        ELSE [ inflight |-> IF Len(f.requests) > 0 THEN q.inflight \cup {k}
                            ELSE q.inflight \ {k},
               cached |-> q.cached,
               client |-> f.client,
               sent |-> q.sent \o f.requests ]

\* refetch() as returned by useQuery: cancelRefetch defaults to true
Refetch(q, use, cfg, sf) == ExecuteFetch(q, use, cfg, sf, TRUE)

\* the render after a state change: a new query key that is enabled is
\* fetched (staleTime is 0)
Render(q, use, cfg, sf, use2, cfg2, sf2) ==
    IF QueryKey(use, cfg, sf) # QueryKey(use2, cfg2, sf2) /\ Enabled(use2, cfg2)
    THEN ExecuteFetch(q, use2, cfg2, sf2, FALSE)
    ELSE q

\* a refetchInterval that ignores the Live switch
TimerPeriodAlways(use, cfg, live, interval) ==
    IF Enabled(use, cfg) THEN interval ELSE 0

\* refetchInterval: isRealTime ? refreshInterval * 1000 : false, in seconds
\* (0: no timer); a disabled query has no timer
TimerPeriod(use, cfg, live, interval) ==
    IF Enabled(use, cfg) /\ live THEN interval ELSE 0

Commit(q, op) ==
    /\ inflight' = q.inflight
    /\ cached' = q.cached
    /\ clientConfig' = q.client
    /\ sent' = q.sent
    /\ lastOp' = op
    /\ UNCHANGED <<callResult, statVars, extVars>>

\* a mount that does not read localStorage
MountWithoutRestore ==
    /\ ~mounted
    /\ mounted' = TRUE
    /\ apiConfig' = JsNull
    /\ useApiData' = FALSE
    /\ Commit(CacheNow, "mount")
    /\ elapsed' = 0
    /\ UNCHANGED <<isRealTime, refreshInterval, statusFilter, storage>>

\* the mount effect, lines 53-65, and the render that follows it
Mount ==
    /\ ~mounted
    /\ mounted' = TRUE
    /\ LET saved == storage
           parsed == JSONparse(saved)
           loads == Len(saved) > 0 /\ parsed.ok
           cfg2 == IF loads THEN parsed.value ELSE JsNull
           q0 == IF loads THEN [CacheNow EXCEPT !.client = cfg2] ELSE CacheNow
       IN  /\ apiConfig' = cfg2
           /\ useApiData' = loads
           /\ Commit(Render(q0, FALSE, JsNull, StatusAll, loads, cfg2, StatusAll),
                     "mount")
    /\ elapsed' = 0
    /\ UNCHANGED <<isRealTime, refreshInterval, statusFilter, storage>>

\* the component unmounts; with reload the page is loaded again, and the
\* apiClient singleton and the query cache start afresh
Unmount(reload) ==
    /\ mounted
    /\ mounted' = FALSE
    /\ useApiData' = FALSE
    /\ apiConfig' = JsNull
    /\ isRealTime' = TRUE
    /\ refreshInterval' = 30
    /\ statusFilter' = StatusAll
    /\ elapsed' = 0
    /\ inflight' = IF reload THEN {} ELSE inflight
    /\ cached' = IF reload THEN {} ELSE cached
    /\ clientConfig' = IF reload THEN InitialConfig ELSE clientConfig
    /\ sent' = <<>>
    /\ lastOp' = "unmount"
    /\ UNCHANGED <<storage, callResult, statVars, extVars>>

\* ApiConnectionModal.handleConnect (lines 63-94) calling handleConnectApi
\* (lines 112-118)
handleConnectApi(config) ==
    /\ mounted
    /\ apiConfig' = config
    /\ useApiData' = TRUE
    /\ storage' = JSONstringify(config)
    /\ LET q0 == [CacheNow EXCEPT !.client = config]
           q1 == Refetch(q0, useApiData, apiConfig, statusFilter)
       IN  Commit(Render(q1, useApiData, apiConfig, statusFilter,
                         TRUE, config, statusFilter), "connect")
    /\ elapsed' = 0
    /\ UNCHANGED <<mounted, isRealTime, refreshInterval, statusFilter>>

\* ApiConnectionModal.handleDisconnect (lines 96-104) calling
\* handleDisconnectApi (lines 120-125); the button shows while isConnected
handleDisconnectApi ==
    /\ mounted
    /\ useApiData
    /\ useApiData' = FALSE
    /\ apiConfig' = JsNull
    /\ storage' = NoItem
    /\ LET q1 == Refetch(CacheNow, useApiData, apiConfig, statusFilter)
       IN  Commit(Render(q1, useApiData, apiConfig, statusFilter,
                         FALSE, JsNull, statusFilter), "disconnect")
    /\ elapsed' = 0
    /\ UNCHANGED <<mounted, isRealTime, refreshInterval, statusFilter>>

\* setStatusFilter(value), lines 445 and 485
SetStatusFilter(value) ==
    /\ mounted
    /\ value # statusFilter
    /\ statusFilter' = value
    /\ Commit(Render(CacheNow, useApiData, apiConfig, statusFilter,
                     useApiData, apiConfig, value), "filter")
    /\ elapsed' = 0
    /\ UNCHANGED <<mounted, useApiData, apiConfig, isRealTime, refreshInterval,
                   storage>>

\* the Live switch, line 311: disabled while not connected
SetIsRealTime(value) ==
    /\ mounted
    /\ useApiData
    /\ value # isRealTime
    /\ isRealTime' = value
    /\ Commit(CacheNow, "realtime")
    /\ elapsed' = 0
    /\ UNCHANGED <<mounted, useApiData, apiConfig, refreshInterval,
                   statusFilter, storage>>

\* the interval select, line 317: disabled while not connected
SetRefreshInterval(value) ==
    /\ mounted
    /\ useApiData
    /\ value # refreshInterval
    /\ refreshInterval' = value
    /\ Commit(CacheNow, "interval")
    /\ elapsed' = IF TimerPeriod(useApiData, apiConfig, isRealTime, value)
                       # TimerPeriod(useApiData, apiConfig, isRealTime,
                                      refreshInterval)
                  THEN 0 ELSE elapsed
    /\ UNCHANGED <<mounted, useApiData, apiConfig, isRealTime, statusFilter,
                   storage>>

\* isLoading of the rendered query: a first fetch is pending
IsLoading == LET k == QueryKey(useApiData, apiConfig, statusFilter)
             IN  k \in inflight /\ k \notin cached

\* the refresh button, lines 359-366: disabled={isLoading || !useApiData}
ManualRefresh ==
    /\ mounted
    /\ useApiData
    /\ ~IsLoading
    /\ Commit(Refetch(CacheNow, useApiData, apiConfig, statusFilter), "refresh")
    /\ elapsed' = 0
    /\ UNCHANGED <<mounted, useApiData, apiConfig, isRealTime, refreshInterval,
                   statusFilter, storage>>

\* time passes while the interval timer runs without firing
Tick ==
    /\ mounted
    /\ elapsed + TickSeconds
         < TimerPeriod(useApiData, apiConfig, isRealTime, refreshInterval)
    /\ elapsed' = elapsed + TickSeconds
    /\ Commit(CacheNow, "tick")
    /\ UNCHANGED <<mounted, useApiData, apiConfig, isRealTime, refreshInterval,
                   statusFilter, storage>>

\* the interval timer fires: the observer fetches, joining a pending fetch
TimerFire ==
    /\ mounted
    /\ TimerPeriod(useApiData, apiConfig, isRealTime, refreshInterval) > 0
    /\ elapsed + TickSeconds
         >= TimerPeriod(useApiData, apiConfig, isRealTime, refreshInterval)
    /\ elapsed' = 0
    /\ Commit(ExecuteFetch(CacheNow, useApiData, apiConfig, statusFilter, FALSE),
              "timer")
    /\ UNCHANGED <<mounted, useApiData, apiConfig, isRealTime, refreshInterval,
                   statusFilter, storage>>

\* a pending query function settles: fetchCronjobData returns the list, or
\* [] after the toast
Settle(k) ==
    /\ k \in inflight
    /\ inflight' = inflight \ {k}
    /\ cached' = cached \cup {k}
    /\ elapsed' = IF mounted /\ k = QueryKey(useApiData, apiConfig, statusFilter)
                  THEN 0 ELSE elapsed
    /\ sent' = <<>>
    /\ lastOp' = "settle"
    /\ UNCHANGED <<mounted, useApiData, apiConfig, isRealTime, refreshInterval,
                   statusFilter, storage, clientConfig, callResult, statVars,
                   extVars>>

StoredTexts ==
    {NoItem, GarbageText, NullText, JSONstringify(ConfigA),
     JSONstringify(ConfigBlank)}

NoData == <<>>

InitPage ==
    /\ mounted = FALSE
    /\ useApiData = FALSE
    /\ apiConfig = JsNull
    /\ isRealTime = TRUE
    /\ refreshInterval = 30
    /\ statusFilter = StatusAll
    /\ clientConfig = InitialConfig
    /\ inflight = {}
    /\ cached = {}
    /\ elapsed = 0
    /\ lastOp = "init"
    /\ sent = <<>>
    /\ callResult = NoCall
    /\ tab = "overview"
    /\ anomalies = <<>>
    /\ predictions = <<>>
    /\ percentiles = <<>>
    /\ analysis = [t |-> "unmounted"]
    /\ liveAlerts = <<>>
    /\ toasts = <<>>
    /\ notify = "idle"

\* no snapshot was ever stored
InitCommon ==
    /\ InitPage
    /\ snapshots = <<>>
    /\ snapshotStore = <<>>
    /\ now = 0

Init ==
    /\ InitCommon
    /\ storage \in StoredTexts
    /\ data = NoData

Next ==
    \/ Mount
    \/ \E reload \in BOOLEAN : Unmount(reload)
    \/ \E config \in FormConfigs : handleConnectApi(config)
    \/ handleDisconnectApi
    \/ \E value \in StatusChoices : SetStatusFilter(value)
    \/ \E value \in BOOLEAN : SetIsRealTime(value)
    \/ \E value \in RefreshChoices : SetRefreshInterval(value)
    \/ ManualRefresh
    \/ Tick
    \/ TimerFire
    \/ \E k \in inflight : Settle(k)

Spec == Init /\ [][Next]_vars

InitApi ==
    /\ InitCommon
    /\ storage = NoItem
    /\ data = NoData

NextApi ==
    \/ \E c \in {InitialConfig, ConfigA, ConfigB, ConfigBlank} : ApiSetConfig(c)
    \/ \E url \in {<<>>, <<"/">>, UrlA, UrlB \o <<"/">>} : ApiSetBaseUrl(url)
    \/ \E params \in ParamObjects : ApiCallHistory(params)
    \/ \E id \in {"1", "2"} : ApiCallById(id)
    \/ \E page \in 0..MaxLimit, limit \in 0..MaxLimit, filters \in FilterObjects :
         ApiCallPaginated(page, limit, filters)
    \/ \E resp \in Responses : ApiRespond(resp)

SpecApi == InitApi /\ [][NextApi]_vars

-----------------------------------------------------------------------------
(* Exact arithmetic for the statistics: a rational is <<n, d>> in lowest    *)
(* terms with d > 0.  A standard deviation is kept as its square, the       *)
(* variance, and compared through squares.                                  *)

Abs(x) == IF x < 0 THEN -x ELSE x

RECURSIVE GCD(_, _)
GCD(a, b) == IF b = 0 THEN a ELSE GCD(b, a % b)

Q(n, d) ==
    LET g == GCD(Abs(n), Abs(d))
        sgn == IF d < 0 THEN -1 ELSE 1
    IN  <<(sgn * n) \div g, (sgn * d) \div g>>

QInt(n) == <<n, 1>>
QAdd(a, b) == Q(a[1] * b[2] + b[1] * a[2], a[2] * b[2])
QSub(a, b) == Q(a[1] * b[2] - b[1] * a[2], a[2] * b[2])
QMul(a, b) == Q(a[1] * b[1], a[2] * b[2])
QDiv(a, b) == Q(a[1] * b[2], a[2] * b[1])
QLt(a, b) == a[1] * b[2] < b[1] * a[2]
QLe(a, b) == a[1] * b[2] <= b[1] * a[2]
QMax(a, b) == IF QLt(a, b) THEN b ELSE a
QAbs(a) == <<Abs(a[1]), a[2]>>

\* values.reduce((sum, val) => sum + val, 0)
RECURSIVE QSum(_)
QSum(values) ==
    IF Len(values) = 0 THEN QInt(0)
    ELSE QAdd(QSum(SubSeq(values, 1, Len(values) - 1)), values[Len(values)])

\* x > k * sqrt(variance), for k >= 0
GtKSigma(x, k, variance) ==
    QLt(QInt(0), x) /\ QLt(QMul(QMul(k, k), variance), QMul(x, x))

-----------------------------------------------------------------------------
(* The hourly time series of VisualAnomalyDetector and TrendLearning       *)
(*                                                                         *)
(* created_at is the record's time in minutes; duration_time is a string   *)
(* of digits; the records are well formed (a valid date, a numeric         *)
(* duration).                                                              *)

\* new Date(created_at).toISOString().slice(0, 13) + ':00': the UTC hour
HourOf(created_at) == created_at \div 60

parseFloat(s) == ParseNumber(s)

ErrorStatuses == {"400", "404", "500", "502", "503"}

\* the body of data.forEach: the Map entry of the record's hour, updated
BucketAdd(map, item) ==
    LET hour == HourOf(item.created_at)
        idx == {i \in 1..Len(map) : map[i].hour = hour}
        current == IF idx = {}
                   THEN [hour |-> hour, requests |-> 0, errors |-> 0,
                         avgDuration |-> QInt(0)]
                   ELSE map[CHOOSE i \in idx : TRUE]
        requests == current.requests + 1
        updated ==
            [ hour |-> hour,
              requests |-> requests,
              errors |-> current.errors
                           + (IF item.status \in ErrorStatuses THEN 1 ELSE 0),
              avgDuration |->
                  QDiv(QAdd(QMul(current.avgDuration, QInt(requests - 1)),
                            QInt(parseFloat(item.duration_time))),
                       QInt(requests)) ]
    IN  IF idx = {} THEN Append(map, updated)
        ELSE [map EXCEPT ![CHOOSE i \in idx : TRUE] = updated]

\* hourlyData after the first k records, in insertion order
RECURSIVE GroupByHour(_, _)
GroupByHour(records, k) ==
    IF k = 0 THEN <<>> ELSE BucketAdd(GroupByHour(records, k - 1), records[k])

RECURSIVE InsertByHour(_, _)
InsertByHour(sorted, x) ==
    IF Len(sorted) = 0 THEN <<x>>
    ELSE IF sorted[Len(sorted)].hour <= x.hour THEN Append(sorted, x)
    ELSE Append(InsertByHour(SubSeq(sorted, 1, Len(sorted) - 1), x),
                sorted[Len(sorted)])

\* .sort((a, b) => a.hour.localeCompare(b.hour)), by timestamp in TrendLearning
RECURSIVE SortByHour(_)
SortByHour(s) ==
    IF Len(s) = 0 THEN <<>>
    ELSE InsertByHour(SortByHour(SubSeq(s, 1, Len(s) - 1)), s[Len(s)])

\* timeSeriesData
TimeSeries(records) == SortByHour(GroupByHour(records, Len(records)))

-----------------------------------------------------------------------------
(* components/VisualAnomalyDetector.tsx: the anomalies memo, lines 32-199 *)

MinRecords == 10       \* if (data.length < 10) return []
MinBuckets == 5        \* if (timeSeriesData.length < 5) return []
Window == 5            \* calculateMovingAverage(values, window = 5)

\* calculateMovingAverage(values): the mean of up to Window values ending at
\* each index
calculateMovingAverage(values) ==
    [index \in 1..Len(values) |->
        LET start == IF index - Window + 1 > 1 THEN index - Window + 1 ELSE 1
            subset == SubSeq(values, start, index)
        IN  QDiv(QSum(subset), QInt(Len(subset)))]

Mean(values) == QDiv(QSum(values), QInt(Len(values)))

\* calculateStandardDeviation(values, mean), squared
Variance(values, mean) ==
    QDiv(QSum([i \in 1..Len(values) |->
                  QMul(QSub(values[i], mean), QSub(values[i], mean))]),
         QInt(Len(values)))

\* a spike test with >= in place of >
IsSpikeNonStrict(requests, baseline, variance) ==
    LET x == QSub(requests, baseline)
    IN  QLe(QInt(0), x) /\ QLe(QMul(QInt(9), variance), QMul(x, x))

\* dataPoint.requests > baseline + (3 * requestStdDev)
IsSpike(requests, baseline, variance) ==
    GtKSigma(QSub(requests, baseline), QInt(3), variance)

\* dataPoint.requests < baseline - (2.5 * requestStdDev) && baseline > 10
IsDrop(requests, baseline, variance) ==
    /\ GtKSigma(QSub(baseline, requests), Q(5, 2), variance)
    /\ QLt(QInt(10), baseline)

\* Math.abs(value - baseline) / Math.max(stdDev, floor) > bound
DeviationAbove(value, baseline, variance, floor, bound) ==
    LET dist == QAbs(QSub(value, baseline))
    IN  IF QLt(QMul(floor, floor), variance)
        THEN GtKSigma(dist, bound, variance)
        ELSE QLt(QMul(bound, floor), dist)

Anomaly(kind, index, type, severity, hour, value, baseline, metric) ==
    [ id |-> <<kind, index>>, type |-> type, severity |-> severity,
      timestamp |-> hour, value |-> value, baseline |-> baseline,
      affectedMetric |-> metric ]

\* requestValues / durationValues with their moving averages and the
\* variance about their mean (lines 72-75 and 123-126)
Baselines(values) ==
    [ values |-> values,
      movingAvg |-> calculateMovingAverage(values),
      variance |-> Variance(values, Mean(values)) ]

\* the body of the request-volume loop, lines 77-120, for the bucket at
\* index (from 1; the id carries the code's index, from 0)
RequestAnomalies(series, stats, index) ==
    LET baseline == stats.movingAvg[index]
        requests == stats.values[index]
        severity ==
            IF DeviationAbove(requests, baseline, stats.variance, QInt(1),
                              QInt(5))
            THEN "critical"
            ELSE IF DeviationAbove(requests, baseline, stats.variance, QInt(1),
                                   QInt(3))
            THEN "high" ELSE "medium"
    IN  (IF IsSpike(requests, baseline, stats.variance)
         THEN <<Anomaly("spike", index - 1, "spike", severity,
                        series[index].hour, requests, baseline,
                        "request_volume")>>
         ELSE <<>>)
        \o
        (IF IsDrop(requests, baseline, stats.variance)
         THEN <<Anomaly("drop", index - 1, "drop", "medium",
                        series[index].hour, requests, baseline,
                        "request_volume")>>
         ELSE <<>>)

\* the body of the response-time loop, lines 128-150
DurationAnomalies(series, stats, index) ==
    LET baseline == stats.movingAvg[index]
        value == stats.values[index]
    IN  IF GtKSigma(QSub(value, baseline), Q(5, 2), stats.variance)
        THEN <<Anomaly("slowness", index - 1, "spike",
                       IF DeviationAbove(value, baseline, stats.variance,
                                         Q(1, 10), QInt(4))
                       THEN "critical" ELSE "high",
                       series[index].hour, value, baseline, "response_time")>>
        ELSE <<>>

\* the stagnation check, lines 153-171
StagnationAnomalies(series, requestMean) ==
    LET zero == SelectSeq(series, LAMBDA d : d.requests = 0)
    IN  IF Len(zero) >= 3
        THEN <<Anomaly("stagnation-period", 0, "stagnation", "high",
                       zero[1].hour, QInt(0), requestMean, "availability")>>
        ELSE <<>>

ErrorRate(d) ==
    IF d.requests > 0 THEN QMul(Q(d.errors, d.requests), QInt(100)) ELSE QInt(0)

\* the body of the error-rate loop, lines 174-196; avgErrorRate is the same
\* at every index
ErrorAnomalies(series, avgErrorRate, index) ==
    LET errorRate == ErrorRate(series[index])
    IN  IF QLt(QMul(avgErrorRate, QInt(2)), errorRate) /\ QLt(QInt(15), errorRate)
        THEN <<Anomaly("error-spike", index - 1, "spike",
                       IF QLt(QInt(50), errorRate) THEN "critical" ELSE "high",
                       series[index].hour, errorRate, avgErrorRate,
                       "error_rate")>>
        ELSE <<>>

\* timeSeriesData.forEach of each loop: what its body pushes for the
\* buckets 1..k
RECURSIVE RequestLoop(_, _, _)
RequestLoop(series, stats, k) ==
    IF k = 0 THEN <<>>
    ELSE RequestLoop(series, stats, k - 1) \o RequestAnomalies(series, stats, k)

RECURSIVE DurationLoop(_, _, _)
DurationLoop(series, stats, k) ==
    IF k = 0 THEN <<>>
    ELSE DurationLoop(series, stats, k - 1) \o DurationAnomalies(series, stats, k)

RECURSIVE ErrorLoop(_, _, _)
ErrorLoop(series, avgErrorRate, k) ==
    IF k = 0 THEN <<>>
    ELSE ErrorLoop(series, avgErrorRate, k - 1)
         \o ErrorAnomalies(series, avgErrorRate, k)

RECURSIVE InsertByTimestampDesc(_, _)
InsertByTimestampDesc(sorted, x) ==
    IF Len(sorted) = 0 THEN <<x>>
    ELSE IF sorted[Len(sorted)].timestamp >= x.timestamp THEN Append(sorted, x)
    ELSE Append(InsertByTimestampDesc(SubSeq(sorted, 1, Len(sorted) - 1), x),
                sorted[Len(sorted)])

\* .sort((a, b) => b.timestamp.localeCompare(a.timestamp)), a stable sort
RECURSIVE SortByTimestampDesc(_)
SortByTimestampDesc(s) ==
    IF Len(s) = 0 THEN <<>>
    ELSE InsertByTimestampDesc(SortByTimestampDesc(SubSeq(s, 1, Len(s) - 1)),
                               s[Len(s)])

\* the two early returns: lines 33 and 55
DetectionRuns(records, series) ==
    Len(records) >= MinRecords /\ Len(series) >= MinBuckets

\* the anomalies memo
DetectAnomalies(records) ==
    LET series == TimeSeries(records)
        n == Len(series)
        requestStats == Baselines([i \in 1..n |-> QInt(series[i].requests)])
        durationStats == Baselines([i \in 1..n |-> series[i].avgDuration])
        avgErrorRate == Mean([i \in 1..n |-> ErrorRate(series[i])])
    IN  IF ~DetectionRuns(records, series) THEN <<>>
        ELSE SortByTimestampDesc(
                 RequestLoop(series, requestStats, n)
                 \o DurationLoop(series, durationStats, n)
                 \o StagnationAnomalies(series, Mean(requestStats.values))
                 \o ErrorLoop(series, avgErrorRate, n))

-----------------------------------------------------------------------------
(* components/TrendLearning.tsx: the predictions of the memo, lines 26-139 *)
(* rSquared, confidence, warning and the chart's trend lines are left out. *)

TrendMinRecords == 5   \* if (data.length < 5)
TrendMinBuckets == 3   \* if (timeSeriesData.length < 3)

\* xValues.reduce((sum, x, i) => sum + x * yValues[i], 0)
Dot(xs, ys) == QSum([i \in 1..Len(xs) |-> QMul(xs[i], ys[i])])

\* a regression whose intercept is the mean of the y values
linearRegressionMeanIntercept(xValues, yValues) ==
    LET n == QInt(Len(xValues))
        sumX == QSum(xValues)
        sumY == QSum(yValues)
        slope == QDiv(QSub(QMul(n, Dot(xValues, yValues)), QMul(sumX, sumY)),
                      QSub(QMul(n, Dot(xValues, xValues)), QMul(sumX, sumX)))
    IN  [slope |-> slope, intercept |-> QDiv(sumY, n)]

\* linearRegression(xValues, yValues): slope and intercept
linearRegression(xValues, yValues) ==
    LET n == QInt(Len(xValues))
        sumX == QSum(xValues)
        sumY == QSum(yValues)
        sumXY == Dot(xValues, yValues)
        sumXX == Dot(xValues, xValues)
        slope == QDiv(QSub(QMul(n, sumXY), QMul(sumX, sumY)),
                      QSub(QMul(n, sumXX), QMul(sumX, sumX)))
        intercept == QDiv(QSub(sumY, QMul(slope, sumX)), n)
    IN  [slope |-> slope, intercept |-> intercept]

\* one pushed TrendPrediction
Prediction(metric, xValues, yValues, nextPoint) ==
    LET regression == linearRegression(xValues, yValues)
        predicted == QAdd(QMul(regression.slope, QInt(nextPoint)),
                          regression.intercept)
    IN  [ metric |-> metric,
          slope |-> regression.slope,
          intercept |-> regression.intercept,
          prediction |-> QMax(QInt(0), predicted) ]

\* generatedPredictions
Predict(records) ==
    LET series == TimeSeries(records)
        n == Len(series)
        xValues == [i \in 1..n |-> QInt(i - 1)]
    IN  IF Len(records) < TrendMinRecords \/ n < TrendMinBuckets THEN <<>>
        ELSE << Prediction("Request Volume", xValues,
                           [i \in 1..n |-> QInt(series[i].requests)], n),
                Prediction("Error Count", xValues,
                           [i \in 1..n |-> QInt(series[i].errors)], n),
                Prediction("Response Time", xValues,
                           [i \in 1..n |-> series[i].avgDuration], n) >>

-----------------------------------------------------------------------------
(* components/AdvancedAnalytics.tsx: percentiles, lines 33-40 *)

RECURSIVE InsertNumber(_, _)
InsertNumber(sorted, x) ==
    IF Len(sorted) = 0 THEN <<x>>
    ELSE IF sorted[Len(sorted)] <= x THEN Append(sorted, x)
    ELSE Append(InsertNumber(SubSeq(sorted, 1, Len(sorted) - 1), x),
                sorted[Len(sorted)])

\* the durations left in the order of the records
Unsorted(s) == s

\* .sort((a, b) => a - b)
RECURSIVE SortNumbers(_)
SortNumbers(s) ==
    IF Len(s) = 0 THEN <<>>
    ELSE InsertNumber(SortNumbers(SubSeq(s, 1, Len(s) - 1)), s[Len(s)])

\* Math.floor(durations.length * q) for q = num / 100
FloorTimes(n, num) == (n * num) \div 100

\* analytics.percentiles; analytics is null for an empty list (line 15)
Percentiles(records) ==
    LET durations ==
            SortNumbers([i \in 1..Len(records) |->
                            parseFloat(records[i].duration_time)])
        n == Len(durations)
    IN  IF Len(records) = 0 THEN <<>>
        ELSE [ p50 |-> durations[FloorTimes(n, 50) + 1],
               p90 |-> durations[FloorTimes(n, 90) + 1],
               p95 |-> durations[FloorTimes(n, 95) + 1],
               p99 |-> durations[FloorTimes(n, 99) + 1] ]

-----------------------------------------------------------------------------
(* The record lists handed to the analysis tabs                            *)
(*                                                                         *)
(* A list holds the records of the hours 1..n: base records an hour,       *)
(* except the hour p with v records.  mode varies statuses and durations;  *)
(* descending lists the newest hour first, as the API does.                *)

MaxBuckets == 13
MaxBase == 2
MaxSpike == 4

\* the hour p is the first, the middle or the last one
Shapes ==
    { s \in [n : 1..MaxBuckets, p : 1..MaxBuckets, base : 1..MaxBase,
             v : 1..MaxSpike, mode : 0..2, descending : BOOLEAN] :
        s.p \in {1, (s.n + 1) \div 2, s.n} }

CronjobRecord(g, h, j) ==
    [ created_at |-> 60 * h + ((7 * (j - 1)) % 60),
      status |-> IF g.mode = 1 /\ h = g.p /\ j = 1 THEN "500"
                 ELSE IF g.mode = 2 /\ (h + j) % 2 = 0 THEN "404"
                 ELSE "200",
      duration_time |-> IF g.mode = 0 THEN <<"1">>
                        ELSE IF g.mode = 2 /\ h = g.p /\ j = 1
                        THEN NumberToString(10)
                        ELSE NumberToString(1 + ((h + j) % 3)) ]

HourRecords(g, h) ==
    [j \in 1..(IF h = g.p THEN g.v ELSE g.base) |-> CronjobRecord(g, h, j)]

RECURSIVE GenData(_, _)
GenData(g, k) ==
    IF k = 0 THEN <<>>
    ELSE GenData(g, k - 1)
         \o HourRecords(g, IF g.descending THEN g.n + 1 - k ELSE k)

DataLists ==
    {NoData} \cup {GenData(g, g.n) : g \in Shapes}

-----------------------------------------------------------------------------
(* The analysis tabs of the Dashboard, lines 534-693: only the active       *)
(* tab's content is mounted, and mounting it runs the component's memo.     *)

StatsUnchanged ==
    UNCHANGED <<dashVars, clientConfig, sent, callResult, data, analysis,
                liveAlerts, toasts, snapshots, snapshotStore, now>>

\* a component that unmounts takes its scheduled effect with it; a state
\* update of the Dashboard stays pending
CancelEffects == notify' = IF notify = "effect" THEN "idle" ELSE notify

\* <TabsTrigger value="overview">
SelectOverview ==
    /\ tab # "overview"
    /\ tab' = "overview"
    /\ anomalies' = <<>>
    /\ predictions' = <<>>
    /\ percentiles' = <<>>
    /\ lastOp' = "selectTab"
    /\ CancelEffects
    /\ StatsUnchanged

\* <TabsTrigger value="analytics">: AdvancedAnalytics data={filteredData}
SelectAnalytics ==
    /\ tab # "analytics"
    /\ tab' = "analytics"
    /\ percentiles' = Percentiles(data)
    /\ anomalies' = <<>>
    /\ predictions' = <<>>
    /\ lastOp' = "selectTab"
    /\ CancelEffects
    /\ StatsUnchanged

\* <TabsTrigger value="anomalies">: VisualAnomalyDetector data={data}; its
\* notify effect (lines 201-205) is scheduled by the mount
SelectAnomalies ==
    /\ tab # "anomalies"
    /\ tab' = "anomalies"
    /\ anomalies' = DetectAnomalies(data)
    /\ predictions' = <<>>
    /\ percentiles' = <<>>
    /\ lastOp' = "selectTab"
    /\ notify' = "effect"
    /\ StatsUnchanged

\* <TabsTrigger value="trends">: TrendLearning data={filteredData}
SelectTrends ==
    /\ tab # "trends"
    /\ tab' = "trends"
    /\ predictions' = Predict(data)
    /\ anomalies' = <<>>
    /\ percentiles' = <<>>
    /\ lastOp' = "selectTab"
    /\ CancelEffects
    /\ StatsUnchanged

InitStats ==
    /\ InitCommon
    /\ storage = NoItem
    /\ data \in DataLists

NextStats ==
    \/ SelectOverview
    \/ SelectAnalytics
    \/ SelectAnomalies
    \/ SelectTrends

SpecStats == InitStats /\ [][NextStats]_vars

-----------------------------------------------------------------------------
(* components/LogAnalysisAI.tsx: error patterns and clusters of the        *)
(* analysis memo, lines 37-119.  A string is a sequence of characters.     *)
(* The statistical anomalies and the summary of the memo are left out.     *)

UpperCase ==
    <<"A", "B", "C", "D", "E", "F", "G", "H", "I", "J", "K", "L", "M",
      "N", "O", "P", "Q", "R", "S", "T", "U", "V", "W", "X", "Y", "Z">>

LowerCase ==
    <<"a", "b", "c", "d", "e", "f", "g", "h", "i", "j", "k", "l", "m",
      "n", "o", "p", "q", "r", "s", "t", "u", "v", "w", "x", "y", "z">>

\* a comparison that keeps the letter case
KeepCase(s) == s

\* String.prototype.toLowerCase
toLowerCase(s) ==
    [i \in 1..Len(s) |->
        IF \E k \in 1..Len(UpperCase) : UpperCase[k] = s[i]
        THEN LowerCase[CHOOSE k \in 1..Len(UpperCase) : UpperCase[k] = s[i]]
        ELSE s[i]]

\* String.prototype.includes
includes(s, sub) ==
    \E i \in 0..(Len(s) - Len(sub)) : SubSeq(s, i + 1, i + Len(sub)) = sub

\* s.split(' '): the words between single spaces, empty words included
RECURSIVE split(_)
split(s) ==
    IF \A i \in 1..Len(s) : s[i] # " " THEN <<s>>
    ELSE LET i == CHOOSE j \in 1..Len(s) :
                     s[j] = " " /\ \A k \in 1..(j - 1) : s[k] # " "
         IN  <<SubSeq(s, 1, i - 1)>> \o split(SubSeq(s, i + 1, Len(s)))

\* words.join(' ')
RECURSIVE join(_)
join(words) ==
    IF Len(words) = 0 THEN <<>>
    ELSE IF Len(words) = 1 THEN words[1]
    ELSE words[1] \o <<" ">> \o join(SubSeq(words, 2, Len(words)))

\* arr.slice(0, n)
Slice(arr, n) == SubSeq(arr, 1, IF Len(arr) < n THEN Len(arr) ELSE n)

\* keywords, line 47
keywords ==
    << <<"u", "n", "d", "e", "f", "i", "n", "e", "d">>,
       <<"n", "u", "l", "l">>,
       <<"t", "i", "m", "e", "o", "u", "t">>,
       <<"c", "o", "n", "n", "e", "c", "t", "i", "o", "n">>,
       <<"i", "n", "v", "a", "l", "i", "d">>,
       <<"f", "a", "i", "l", "e", "d">>,
       <<"e", "r", "r", "o", "r">>,
       <<"e", "x", "c", "e", "p", "t", "i", "o", "n">> >>

\* errorDescriptions, lines 42-44
errorDescriptions(records) ==
    LET errors == SelectSeq(records, LAMBDA item : item.status \in ErrorStatuses)
    IN  [i \in 1..Len(errors) |-> errors[i].desc_transaction]

\* the body of keywords.forEach, lines 48-60: what it pushes for one keyword
PatternOf(descriptions, keyword) ==
    LET matches ==
            SelectSeq(descriptions,
                      LAMBDA desc : includes(toLowerCase(desc),
                                             toLowerCase(keyword)))
    IN  IF Len(matches) > 0
        THEN << [ pattern |-> keyword,
                  frequency |-> Len(matches),
                  examples |-> Slice(matches, 3),
                  severity |-> IF Len(matches) > 10 THEN "high"
                               ELSE IF Len(matches) > 5 THEN "medium"
                               ELSE "low" ] >>
        ELSE <<>>

\* errorPatterns after the first k keywords
RECURSIVE MinePatterns(_, _)
MinePatterns(descriptions, k) ==
    IF k = 0 THEN <<>>
    ELSE MinePatterns(descriptions, k - 1) \o PatternOf(descriptions, keywords[k])

\* [...new Set(values)]: the distinct values in order of first occurrence
RECURSIVE Unique(_)
Unique(values) ==
    IF Len(values) = 0 THEN <<>>
    ELSE LET rest == Unique(SubSeq(values, 1, Len(values) - 1))
             last == values[Len(values)]
         IN  IF \E i \in 1..Len(rest) : rest[i] = last THEN rest
             ELSE Append(rest, last)

\* a similarity test on the first 2 words
SimilarTwoWords(desc, otherDesc) ==
    \/ desc = otherDesc
    \/ join(Slice(split(toLowerCase(desc)), 2))
         = join(Slice(split(toLowerCase(otherDesc)), 2))

\* the similarity test of lines 100-106
Similar(desc, otherDesc) ==
    \/ desc = otherDesc
    \/ join(Slice(split(toLowerCase(desc)), 3))
         = join(Slice(split(toLowerCase(otherDesc)), 3))

\* the body of uniqueDescriptions.forEach, lines 98-118; members is the
\* local array similar
ClusterStep(acc, records, unique, desc) ==
    LET similar == SelectSeq(unique, LAMBDA otherDesc : Similar(desc, otherDesc))
        clusterData ==
            SelectSeq(records,
                      LAMBDA item : \E i \in 1..Len(similar) :
                                        similar[i] = item.desc_transaction)
    IN  IF desc \in acc.processedClusters THEN acc
        ELSE IF Len(similar) > 1
        THEN [ processedClusters |->
                   acc.processedClusters
                     \cup {similar[i] : i \in 1..Len(similar)},
               clusters |->
                   Append(acc.clusters,
                          [ id |-> Len(acc.clusters),
                            description |->
                                Slice(similar[1], 50) \o <<".", ".", ".">>,
                            count |-> Len(clusterData),
                            examples |-> Slice(similar, 3),
                            similarity |-> Q(Len(similar), Len(unique)),
                            members |-> similar ]) ]
        ELSE acc

\* processedClusters and clusters after the first k unique descriptions
RECURSIVE ClusterLoop(_, _, _)
ClusterLoop(records, unique, k) ==
    IF k = 0 THEN [processedClusters |-> {}, clusters |-> <<>>]
    ELSE ClusterStep(ClusterLoop(records, unique, k - 1), records, unique,
                     unique[k])

\* the analysis memo: null for an empty list (line 38)
Analyse(records) ==
    LET unique ==
            Unique([i \in 1..Len(records) |-> records[i].desc_transaction])
    IN  IF Len(records) = 0 THEN JsNull
        ELSE [ t |-> "analysis",
               errorPatterns |->
                   MinePatterns(errorDescriptions(records), Len(keywords)),
               clusters |->
                   ClusterLoop(records, unique, Len(unique)).clusters ]

-----------------------------------------------------------------------------
(* The record lists handed to LogAnalysisAI: copies of one record followed  *)
(* by one of a few fixed lists.                                             *)

MaxCopies == 11

Descriptions ==
    << <<"C", "o", "n", "n", "e", "c", "t", "i", "o", "n", " ", "t",
         "i", "m", "e", "o", "u", "t", " ", "e", "r", "r", "o", "r">>,
       <<"c", "o", "n", "n", "e", "c", "t", "i", "o", "n", " ", "T",
         "I", "M", "E", "O", "U", "T", " ", "E", "r", "r", "o", "r",
         " ", "a", "t", " ", "d", "b">>,
       <<"N", "u", "l", "l", " ", "p", "o", "i", "n", "t", "e", "r">>,
       <<"n", "u", "l", "l", " ", "p", "o", "i", "n", "t", "e", "r",
         " ", "e", "x", "c", "e", "p", "t", "i", "o", "n">>,
       <<"P", "a", "y", "m", "e", "n", "t", " ", "o", "k">>,
       <<"R", "e", "q", "u", "e", "s", "t", " ", "f", "a", "i", "l",
         "e", "d", ":", " ", "u", "n", "d", "e", "f", "i", "n", "e",
         "d", " ", " ", "v", "a", "l", "u", "e">> >>

LogRecord(d, status) ==
    [ desc_transaction |-> Descriptions[d], status |-> status,
      duration_time |-> <<"1">>, created_at |-> 60 ]

LogTails ==
    << <<>>,
       <<LogRecord(2, "500"), LogRecord(3, "404"), LogRecord(5, "200")>>,
       <<LogRecord(1, "200"), LogRecord(4, "503"), LogRecord(6, "400"),
         LogRecord(3, "200"), LogRecord(4, "502"), LogRecord(2, "500")>>
         \o [i \in 1..4 |-> LogRecord(4, "400")] >>

LogLists ==
    { [i \in 1..g.k |-> LogRecord(g.d, g.status)] \o LogTails[g.tail] :
        g \in [k : 0..MaxCopies, d : 1..Len(Descriptions),
               status : {"200", "404", "500"}, tail : 1..Len(LogTails)] }

\* <TabsTrigger value="ai">: LogAnalysisAI data={data}
SelectAi ==
    /\ tab # "ai"
    /\ tab' = "ai"
    /\ analysis' = Analyse(data)
    /\ CancelEffects
    /\ lastOp' = "selectTab"
    /\ UNCHANGED <<dashVars, clientConfig, sent, callResult, data, anomalies,
                   predictions, percentiles, liveAlerts, toasts, snapshots,
                   snapshotStore, now>>

\* another tab is selected and LogAnalysisAI unmounts
LeaveAi ==
    /\ tab = "ai"
    /\ tab' = "overview"
    /\ analysis' = [t |-> "unmounted"]
    /\ CancelEffects
    /\ lastOp' = "selectTab"
    /\ UNCHANGED <<dashVars, clientConfig, sent, callResult, data, anomalies,
                   predictions, percentiles, liveAlerts, toasts, snapshots,
                   snapshotStore, now>>

InitLogs ==
    /\ InitCommon
    /\ storage = NoItem
    /\ data \in LogLists

NextLogs ==
    \/ SelectAi
    \/ LeaveAi

SpecLogs == InitLogs /\ [][NextLogs]_vars

-----------------------------------------------------------------------------
(* Dashboard.fetchCronjobData run to its end, lines 68-102: SpecFetch       *)
(*                                                                          *)
(* The query function runs in the closure (useApiData, apiConfig,           *)
(* statusFilter) drawn by the initial state.                                *)

\* a query function without the try / catch
SettleUncaught(s) ==
    [outcome |-> s.outcome, value |-> s.value, toasts |-> <<>>]

\* the end of fetchCronjobData given how apiClient.fetchTransactionHistory
\* ended: its list is returned; its error is caught, lines 93-101, with the
\* toast 'API Error' and [] returned
SettleCronjobData(s) ==
    IF s.outcome = "throw"
    THEN [outcome |-> "return", value |-> <<>>, toasts |-> <<"API Error">>]
    ELSE [outcome |-> "return", value |-> s.value, toasts |-> <<>>]

FetchUnchanged ==
    UNCHANGED <<dashVars, statVars, analysis, liveAlerts, notify, snapshots,
                snapshotStore, now>>

\* fetchCronjobData() up to its await, or to its end when it does not await
QueryFnStart ==
    /\ callResult.phase = "none"
    /\ LET f == fetchCronjobData(useApiData, apiConfig, statusFilter,
                                 clientConfig)
           end == IF ~useApiData \/ apiConfig = JsNull
                  THEN [outcome |-> "return", value |-> <<>>, toasts |-> <<>>]
                  ELSE SettleCronjobData(
                           StartHistory(apiConfig, DashboardParams(statusFilter)))
       IN  /\ clientConfig' = f.client
           /\ sent' = f.requests
           /\ IF Len(f.requests) > 0
              THEN /\ callResult' = [phase |-> "pending",
                                     op |-> "fetchCronjobData",
                                     requests |-> f.requests]
                   /\ toasts' = <<>>
              ELSE /\ callResult' = [phase |-> "done",
                                     op |-> "fetchCronjobData",
                                     requests |-> <<>>,
                                     resp |-> [kind |-> "none"],
                                     result |-> end]
                   /\ toasts' = end.toasts
    /\ lastOp' = "fetchCronjobData"
    /\ FetchUnchanged

\* the fetch of the pending query function settles with resp
QueryFnSettle(resp) ==
    /\ callResult.phase = "pending"
    /\ callResult.op = "fetchCronjobData"
    /\ LET end == SettleCronjobData(
                      HandleHistoryResponse(resp, callResult.requests))
       IN  /\ callResult' = [phase |-> "done", op |-> "fetchCronjobData",
                             requests |-> callResult.requests,
                             resp |-> resp, result |-> end]
           /\ toasts' = end.toasts
    /\ sent' = <<>>
    /\ lastOp' = "settle"
    /\ UNCHANGED clientConfig
    /\ FetchUnchanged

InitFetch ==
    /\ mounted = TRUE
    /\ useApiData \in BOOLEAN
    /\ apiConfig \in {JsNull, ConfigA, ConfigB, ConfigBlank}
    /\ statusFilter \in StatusChoices
    /\ isRealTime = TRUE
    /\ refreshInterval = 30
    /\ storage = NoItem
    /\ clientConfig = InitialConfig
    /\ inflight = {}
    /\ cached = {}
    /\ elapsed = 0
    /\ lastOp = "init"
    /\ sent = <<>>
    /\ callResult = NoCall
    /\ data = NoData
    /\ tab = "overview"
    /\ anomalies = <<>>
    /\ predictions = <<>>
    /\ percentiles = <<>>
    /\ analysis = [t |-> "unmounted"]
    /\ liveAlerts = <<>>
    /\ toasts = <<>>
    /\ notify = "idle"
    /\ snapshots = <<>>
    /\ snapshotStore = <<>>
    /\ now = 0

NextFetch ==
    \/ QueryFnStart
    \/ \E resp \in Responses : QueryFnSettle(resp)

SpecFetch == InitFetch /\ [][NextFetch]_vars

-----------------------------------------------------------------------------
(* The anomaly notifications: VisualAnomalyDetector's notify effect, lines  *)
(* 201-205, and Dashboard.handleAnomalyDetected, lines 261-272: SpecAlerts  *)
(*                                                                          *)
(* notify is "effect" while the notify effect is scheduled, "render" while  *)
(* a state update of the Dashboard awaits its render, and "idle" otherwise. *)
(* handleAnomalyDetected is a new function in every render of the           *)
(* Dashboard, and it is a dependency of the effect.                         *)

\* an updater that keeps 5 earlier alerts
KeepFiveEarlier(prev, anomaly) == <<anomaly>> \o Slice(prev, 5)

\* the updater of setLiveAlerts: prev => [anomaly, ...prev.slice(0, 4)]
AlertUpdater(prev, anomaly) == <<anomaly>> \o Slice(prev, 4)

\* the toast of handleAnomalyDetected, lines 265-271
AlertToast(anomaly) ==
    IF anomaly.severity = "critical"
    THEN <<"Critical Anomaly Detected">> ELSE <<>>

\* anomalies.forEach(anomaly => onAnomalyDetected(anomaly)) over the first k
\* anomalies: the queued updaters applied in order, and the toasts
RECURSIVE ReportAll(_, _, _)
ReportAll(list, prev, k) ==
    IF k = 0 THEN [alerts |-> prev, toasts |-> <<>>]
    ELSE LET r == ReportAll(list, prev, k - 1)
         IN  [ alerts |-> AlertUpdater(r.alerts, list[k]),
               toasts |-> r.toasts \o AlertToast(list[k]) ]

AlertUnchanged ==
    UNCHANGED <<dashVars, clientConfig, sent, callResult, statVars, analysis,
                snapshots, snapshotStore, now>>

\* the notify effect runs: lines 202-204
NotifyEffect ==
    /\ notify = "effect"
    /\ tab = "anomalies"
    /\ IF Len(anomalies) > 0
       THEN LET r == ReportAll(anomalies, liveAlerts, Len(anomalies))
            IN  /\ liveAlerts' = r.alerts
                /\ toasts' = r.toasts
                /\ notify' = "render"
       ELSE /\ toasts' = <<>>
            /\ notify' = "idle"
            /\ UNCHANGED liveAlerts
    /\ lastOp' = "notifyEffect"
    /\ AlertUnchanged

\* the Dashboard renders after setLiveAlerts: VisualAnomalyDetector, if
\* mounted, gets the new handleAnomalyDetected, so its effect is scheduled
RenderDashboard ==
    /\ notify = "render"
    /\ notify' = IF tab = "anomalies" THEN "effect" ELSE "idle"
    /\ toasts' = <<>>
    /\ lastOp' = "render"
    /\ UNCHANGED liveAlerts
    /\ AlertUnchanged

\* ten hours of one request each, a second request in hour 7; the request
\* of hour 3 and one of hour 7 fail: error rates of 100% and of 50%
TwoErrorHours ==
    LET rec(h, j, st) == [ created_at |-> 60 * h + 7 * (j - 1),
                           status |-> st, duration_time |-> <<"1">> ]
        first == [h \in 1..10 |-> rec(h, 1, IF h = 3 THEN "500" ELSE "200")]
    IN  SubSeq(first, 1, 7) \o <<rec(7, 2, "500")>> \o SubSeq(first, 8, 10)

InitAlerts ==
    /\ InitCommon
    /\ storage = NoItem
    /\ data \in DataLists \cup {TwoErrorHours}

NextAlerts ==
    \/ SelectOverview
    \/ SelectAnomalies
    \/ NotifyEffect
    \/ RenderDashboard

\* React runs a scheduled effect and a pending render
SpecAlerts ==
    /\ InitAlerts
    /\ [][NextAlerts]_vars
    /\ WF_vars(NotifyEffect)
    /\ WF_vars(RenderDashboard)

-----------------------------------------------------------------------------
(* SnapshotManager (src/unnamed/part_000): the snapshot list, its copy in   *)
(* localStorage under 'dashboard_snapshots', and the clock: SpecSnap        *)
(*                                                                          *)
(* A snapshot is modelled by its id and its name. now is the reading of     *)
(* Date.now(), in milliseconds: it does not change while a handler runs,    *)
(* and two handlers may run before it changes. A click is a discrete        *)
(* event, so each handler sees the list of the last committed render.       *)

MaxNow == 3          \* Date.now() ranges over 1..MaxNow
MaxSnapshots == 3    \* the list holds at most MaxSnapshots snapshots

\* JSON.stringify(snapshots)
RECURSIVE StringifySnapshots(_, _)
StringifySnapshots(list, k) ==
    IF k = 0 THEN << <<"[">> >>
    ELSE StringifySnapshots(list, k - 1)
         \o << <<"{">>, <<"id">>, list[k].id, <<"name">>, list[k].name,
               <<"}">> >>
         \o (IF k = Len(list) THEN <<>> ELSE << <<",">> >>)

SnapshotsText(list) == StringifySnapshots(list, Len(list)) \o << <<"]">> >>

\* JSON.parse of such a text: the first k snapshots of it
RECURSIVE ParseSnapshots(_, _)
ParseSnapshots(text, k) ==
    IF k = 0 THEN <<>>
    ELSE Append(ParseSnapshots(text, k - 1),
                [id |-> text[7 * k - 3], name |-> text[7 * k - 1]])

\* the useState initialiser, lines 52-55
InitialSnapshots(saved) ==
    IF saved # NoItem THEN ParseSnapshots(saved, (Len(saved) - 1) \div 7)
    ELSE <<>>

\* newSnapshot.name of the form
SnapshotNames == {<<>>, <<"a">>, <<"b">>}

\* snapshots.filter(s => s.id !== id), line 102
RECURSIVE FilterOthers(_, _)
FilterOthers(list, id) ==
    IF list = <<>> THEN <<>>
    ELSE (IF list[1].id # id THEN <<list[1]>> ELSE <<>>)
         \o FilterOthers(Tail(list), id)

SnapUnchanged ==
    UNCHANGED <<dashVars, clientConfig, sent, callResult, statVars, analysis,
                liveAlerts, toasts, notify>>

\* a millisecond passes
ClockTick ==
    /\ now < MaxNow
    /\ now' = now + 1
    /\ lastOp' = "tick"
    /\ UNCHANGED <<snapshots, snapshotStore>>
    /\ SnapUnchanged

\* createSnapshot, lines 82-99
createSnapshot(name) ==
    /\ Len(snapshots) < MaxSnapshots
    /\ LET snapshot ==
               [ id |-> NumberToString(now),
                 name |-> IF name # <<>> THEN name
                          ELSE <<"Snapshot ">> \o NumberToString(now) ]
           updatedSnapshots == snapshots \o <<snapshot>>
       IN  /\ snapshots' = updatedSnapshots
           /\ snapshotStore' = SnapshotsText(updatedSnapshots)
    /\ lastOp' = "createSnapshot"
    /\ UNCHANGED now
    /\ SnapUnchanged

\* deleteSnapshot(id), lines 101-105: the button of a listed snapshot
deleteSnapshot(id) ==
    /\ \E i \in 1..Len(snapshots) : snapshots[i].id = id
    /\ LET updatedSnapshots == FilterOthers(snapshots, id)
       IN  /\ snapshots' = updatedSnapshots
           /\ snapshotStore' = SnapshotsText(updatedSnapshots)
    /\ lastOp' = "deleteSnapshot"
    /\ UNCHANGED now
    /\ SnapUnchanged

\* what an earlier visit left in localStorage
StoredSnapshots ==
    { NoItem, SnapshotsText(<<>>),
      SnapshotsText(<< [id |-> NumberToString(0), name |-> <<"a">>] >>) }

\* the ids of the listed snapshots: each has its delete button, line 249
ListedIds == {snapshots[i].id : i \in 1..Len(snapshots)}

InitSnap ==
    /\ InitPage
    /\ storage = NoItem
    /\ data = NoData
    /\ now = 1
    /\ snapshotStore \in StoredSnapshots
    /\ snapshots = InitialSnapshots(snapshotStore)

NextSnap ==
    \/ ClockTick
    \/ \E name \in SnapshotNames : createSnapshot(name)
    \/ \E id \in ListedIds : deleteSnapshot(id)

SpecSnap == InitSnap /\ [][NextSnap]_vars

-----------------------------------------------------------------------------
(* Properties of the connection and of the query: Spec *)

Connected == useApiData /\ apiConfig # JsNull

\* C1: an HTTP request to the transaction-history endpoint is issued only
\* while the API is connected: an operation that issues a request leaves
\* useApiData true and apiConfig non-null.  In particular handleDisconnectApi
\* issues none.
C1_FetchOnlyWhileConnected == Len(sent) > 0 => Connected

\* C2: the connection persists through localStorage and nothing else.  A
\* connect with C stores a text that parses to C, a disconnect removes the
\* entry, no other operation touches it; a mount that finds the text of a
\* configuration C ends connected with apiConfig = C and apiClient configured
\* with C, and a mount that finds no entry or a text that does not parse ends
\* not connected.
C2_ConnectionPersists ==
    [][ /\ lastOp' = "connect" =>
              /\ apiConfig' \in FormConfigs
              /\ Len(storage') > 0
              /\ JSONparse(storage').ok
              /\ JSONparse(storage').value = apiConfig'
        /\ lastOp' = "disconnect" => storage' = NoItem
        /\ lastOp' \notin {"connect", "disconnect"} => storage' = storage
        /\ lastOp' = "mount" =>
              /\ \A c \in FormConfigs \cup {ConfigBlank} :
                    storage = JSONstringify(c) =>
                       useApiData' /\ apiConfig' = c /\ clientConfig' = c
              /\ storage \in {NoItem, GarbageText} =>
                    ~useApiData' /\ apiConfig' = JsNull
                       /\ clientConfig' = clientConfig
      ]_vars

\* ConfigB is in no initial storage: it was connected, then the page remounted
C2_Witness ==
    /\ lastOp = "mount"
    /\ useApiData /\ apiConfig = ConfigB /\ clientConfig = ConfigB

\* C7: the interval timer runs exactly while the API is connected and Live
\* is on, and fires when refreshInterval seconds have passed since it was
\* armed; the firing fetches the list again unless a fetch is pending.  (The
\* page is taken to be visible: the library's refetchIntervalInBackground
\* defaults to false.)
C7_TimerDrivenRefresh ==
    [][ /\ lastOp' \in {"tick", "timer"} =>
              /\ Connected /\ isRealTime
              /\ UNCHANGED <<useApiData, apiConfig, isRealTime, refreshInterval>>
        /\ lastOp' = "tick" =>
              elapsed' = elapsed + TickSeconds /\ elapsed' < refreshInterval
        /\ lastOp' = "timer" =>
              /\ elapsed + TickSeconds = refreshInterval
              /\ elapsed' = 0
              /\ (/\ QueryKey(useApiData, apiConfig, statusFilter) \notin inflight
                  /\ Len(apiConfig.baseUrl) > 0)
                   => /\ Len(sent') = 1
                      /\ sent'[1].base = apiConfig.baseUrl
                      /\ sent'[1].path = apiConfig.endpoints.transactionHistory
        /\ ~(Connected' /\ isRealTime') => elapsed' = 0
        /\ (Connected' /\ isRealTime') => elapsed' < refreshInterval'
      ]_vars

\* the timer fired at the initial interval of 30 seconds and refetched
C7_Witness ==
    /\ lastOp = "timer"
    /\ refreshInterval = 30
    /\ Len(sent) = 1

\* JSON.stringify(apiConfig), of null too
Serialised(cfg) == IF cfg = JsNull THEN NullText ELSE JSONstringify(cfg)

-----------------------------------------------------------------------------
(* Properties of the ApiClient: SpecApi *)

BaseUrlError == [name |-> "Error", message |-> <<"API base URL not set">>]
FormatError == [name |-> "Error", message |-> <<"Invalid API response format">>]

\* C3: with an empty base URL, fetchTransactionHistory, fetchTransactionById
\* and fetchPaginatedData fail with 'API base URL not set' and send nothing.
C3_BaseUrlNotSet ==
    (callResult.phase # "none" /\ Len(callResult.baseUrl) = 0) =>
        /\ callResult.phase = "done"
        /\ callResult.result.outcome = "throw"
        /\ callResult.result.value = BaseUrlError
        /\ Len(callResult.result.requests) = 0
        /\ Len(sent) = 0

\* fetchPaginatedData failed that way after the base URL was emptied
C3_Witness ==
    /\ callResult.phase = "done"
    /\ callResult.op = "fetchPaginatedData"
    /\ lastOp = "fetchPaginatedData"
    /\ Len(callResult.baseUrl) = 0
    /\ clientConfig.endpoints.transactionHistory = "/v2/history"
    /\ callResult.result.value = BaseUrlError

IsReturn(r, list) == r.outcome = "return" /\ r.value = list
IsThrow(r, err) == r.outcome = "throw" /\ r.value = err

\* C4: for every HTTP response with a JSON body, fetchTransactionHistory
\* fails with 'API Error: <status> <statusText>' on a non-OK status, returns a
\* bare array as is, returns the data array of a wrapped body, returns [data]
\* for truthy success and a truthy non-array data, and fails with 'Invalid API
\* response format' on every other body.
C4_HistoryResponse ==
    ( /\ callResult.phase = "done"
      /\ callResult.op = "fetchTransactionHistory"
      /\ lastOp = "respond"
      /\ callResult.resp.kind = "http" ) =>
        LET resp == callResult.resp
            body == resp.body
            r == callResult.result
            d == DataOf(body)
        IN  IF ~resp.ok
            THEN IsThrow(r, [name |-> "Error",
                             message |-> <<"API Error:", resp.status,
                                           resp.statusText>>])
            ELSE IF body.t = "unparsable" THEN TRUE
            ELSE IF body.t = "array" THEN IsReturn(r, body.v)
            ELSE IF d.t = "array" THEN IsReturn(r, d.v)
            ELSE IF Truthy(SuccessOf(body)) /\ Truthy(d) THEN IsReturn(r, <<d>>)
            ELSE IsThrow(r, FormatError)

QueryHas(q, name) == \E i \in 1..Len(q) : q[i][1] = name
QueryValueOf(q, name) == q[CHOOSE i \in 1..Len(q) : q[i][1] = name][2]
Given(p, name) == name \in DOMAIN p /\ p[name].t # "undefined"

\* C5: the request's limit and page are the caller's values when given and
\* the configured defaults otherwise; start_date, end_date, status, feature
\* and method appear exactly when the caller supplied a non-empty value.
C5_ParamsMerged ==
    ( /\ callResult.phase = "pending"
      /\ callResult.op = "fetchTransactionHistory" ) =>
        LET p == callResult.args.params
            q == callResult.requests[1].query
            defaults == clientConfig.defaultParams
        IN  /\ \A n \in {"limit", "page"} :
                 /\ QueryHas(q, n)
                 /\ QueryValueOf(q, n) =
                      NumberToString(IF Given(p, n) THEN p[n].v ELSE defaults[n])
            /\ \A pair \in { <<"startDate", "start_date">>,
                             <<"endDate", "end_date">>, <<"status", "status">>,
                             <<"feature", "feature">>, <<"method", "method">> } :
                 LET supplied == Given(p, pair[1]) /\ Len(p[pair[1]].v) > 0
                 IN  /\ QueryHas(q, pair[2]) <=> supplied
                     /\ supplied => QueryValueOf(q, pair[2]) = p[pair[1]].v

-----------------------------------------------------------------------------
(* Properties of the analysis tabs: SpecStats                               *)
(*                                                                          *)
(* The properties are stated over the record list itself, by counting, and  *)
(* in integer arithmetic where they can be, not through the time series     *)
(* the components build.                                                    *)

HoursOf(records) ==
    {HourOf(records[i].created_at) : i \in 1..Len(records)}

RecordsAt(records, h) ==
    {i \in 1..Len(records) : HourOf(records[i].created_at) = h}

CountAt(records, h) == Cardinality(RecordsAt(records, h))

RECURSIVE SumFn(_, _)
SumFn(f, S) ==
    IF S = {} THEN 0
    ELSE LET x == CHOOSE y \in S : TRUE IN f[x] + SumFn(f, S \ {x})

SumOver(S, F(_)) == SumFn([x \in S |-> F(x)], S)

RECURSIVE QSumFn(_, _)
QSumFn(f, S) ==
    IF S = {} THEN QInt(0)
    ELSE LET x == CHOOSE y \in S : TRUE IN QAdd(f[x], QSumFn(f, S \ {x}))

QSumOver(S, F(_)) == QSumFn([x \in S |-> F(x)], S)

\* the hours of up to 5 consecutive buckets ending at h
Trailing(records, h) ==
    {g \in HoursOf(records) :
        g <= h /\ Cardinality({k \in HoursOf(records) : g < k /\ k <= h}) < 5}

\* count(h) > baseline + 3 * sigma, with baseline = S / w over the trailing
\* buckets and sigma^2 = SS / n - (T / n)^2 over all n buckets, multiplied
\* out: w * count(h) - S > 0 and (w * count(h) - S)^2 * n^2
\* > 9 * w^2 * (n * SS - T^2)
ThreeSigmaAbove(records, h) ==
    LET H == HoursOf(records)
        n == Cardinality(H)
        W == Trailing(records, h)
        w == Cardinality(W)
        S == SumOver(W, LAMBDA g : CountAt(records, g))
        T == Len(records)
        SS == SumOver(H, LAMBDA g : CountAt(records, g) * CountAt(records, g))
        d == w * CountAt(records, h) - S
    IN  d > 0 /\ d * d * n * n > 9 * w * w * (n * SS - T * T)

SpikeEntries ==
    {i \in 1..Len(anomalies) :
        anomalies[i].type = "spike"
        /\ anomalies[i].affectedMetric = "request_volume"}

SpikeHours == {anomalies[i].timestamp : i \in SpikeEntries}

IndexOfHour(records, h) == Cardinality({g \in HoursOf(records) : g < h})

ErrorsAt(records, h) ==
    Cardinality({i \in RecordsAt(records, h) : records[i].status \in ErrorStatuses})

MeanDurationAt(records, h) ==
    Q(SumOver(RecordsAt(records, h),
              LAMBDA i : parseFloat(records[i].duration_time)),
      CountAt(records, h))

\* the line slope * x + intercept minimises the squared error over the
\* points (index of h, Y(h)): both normal equations hold
LeastSquares(records, slope, intercept, Y(_)) ==
    LET H == HoursOf(records)
        Residual(h) ==
            QSub(Y(h), QAdd(QMul(slope, QInt(IndexOfHour(records, h))),
                            intercept))
    IN  /\ QSumOver(H, Residual) = QInt(0)
        /\ QSumOver(H, LAMBDA h : QMul(QInt(IndexOfHour(records, h)),
                                       Residual(h))) = QInt(0)

\* the prediction is the line at index n, or 0 if the line is below 0 there
Forecast(records, pred, metric, Y(_)) ==
    LET atN == QAdd(QMul(pred.slope, QInt(Cardinality(HoursOf(records)))),
                    pred.intercept)
    IN  /\ pred.metric = metric
        /\ LeastSquares(records, pred.slope, pred.intercept, Y)
        /\ pred.prediction = (IF QLt(atN, QInt(0)) THEN QInt(0) ELSE atN)
        /\ QLe(QInt(0), pred.prediction)

\* C9: TrendLearning yields no prediction for fewer than 5 records or fewer
\* than 3 hourly buckets, and otherwise exactly the three predictions
\* Request Volume, Error Count and Response Time, each the least-squares
\* line over the bucket indices 0..n-1 taken at index n and clamped at 0.
C9_TrendPredictions ==
    tab = "trends" =>
        IF Len(data) < 5 \/ Cardinality(HoursOf(data)) < 3
        THEN predictions = <<>>
        ELSE /\ Len(predictions) = 3
             /\ Forecast(data, predictions[1], "Request Volume",
                         LAMBDA h : QInt(CountAt(data, h)))
             /\ Forecast(data, predictions[2], "Error Count",
                         LAMBDA h : QInt(ErrorsAt(data, h)))
             /\ Forecast(data, predictions[3], "Response Time",
                         LAMBDA h : MeanDurationAt(data, h))

\* three predictions, one clamped at 0 on a falling line, one positive
C9_Witness ==
    /\ tab = "trends"
    /\ Len(predictions) = 3
    /\ predictions[1].prediction = QInt(0)
    /\ QLt(predictions[1].slope, QInt(0))
    /\ QLt(QInt(0), predictions[3].prediction)

Durations(records) ==
    [i \in 1..Len(records) |-> parseFloat(records[i].duration_time)]

\* v is the element at index k (from 0) of the ascending sort of ds
IsOrderStatistic(ds, k, v) ==
    /\ \E i \in 1..Len(ds) : ds[i] = v
    /\ Cardinality({i \in 1..Len(ds) : ds[i] < v}) <= k
    /\ k < Cardinality({i \in 1..Len(ds) : ds[i] <= v})

\* C10: for a non-empty list each of p50, p90, p95, p99 is the duration of a
\* record, namely the element at index floor(n * q) of the durations in
\* ascending order, and p50 <= p90 <= p95 <= p99.
C10_Percentiles ==
    (tab = "analytics" /\ Len(data) > 0) =>
        LET ds == Durations(data)
            n == Len(data)
        IN  /\ percentiles # <<>>
            /\ IsOrderStatistic(ds, (n * 50) \div 100, percentiles.p50)
            /\ IsOrderStatistic(ds, (n * 90) \div 100, percentiles.p90)
            /\ IsOrderStatistic(ds, (n * 95) \div 100, percentiles.p95)
            /\ IsOrderStatistic(ds, (n * 99) \div 100, percentiles.p99)
            /\ percentiles.p50 <= percentiles.p90
            /\ percentiles.p90 <= percentiles.p95
            /\ percentiles.p95 <= percentiles.p99

\* percentiles of a list given newest first, three of them distinct
C10_Witness ==
    /\ tab = "analytics"
    /\ Len(data) > 1
    /\ data[1].created_at > data[Len(data)].created_at
    /\ percentiles # <<>>
    /\ percentiles.p50 < percentiles.p90
    /\ percentiles.p90 < percentiles.p95

-----------------------------------------------------------------------------
(* Properties of the log analysis: SpecLogs *)

LowerChar(c) ==
    IF \E k \in 1..26 : UpperCase[k] = c
    THEN LowerCase[CHOOSE k \in 1..26 : UpperCase[k] = c] ELSE c

\* kw occurs in desc at some position, letter case aside
ContainsIgnoringCase(desc, kw) ==
    \E i \in 0..(Len(desc) - Len(kw)) :
        \A j \in 1..Len(kw) : LowerChar(desc[i + j]) = LowerChar(kw[j])

\* the records with an error status whose description contains kw
ErrorMatches(kw) ==
    {i \in 1..Len(data) :
        /\ data[i].status \in {"400", "404", "500", "502", "503"}
        /\ ContainsIgnoringCase(data[i].desc_transaction, kw)}

PatternEntries(kw) ==
    {i \in 1..Len(analysis.errorPatterns) :
        analysis.errorPatterns[i].pattern = kw}

\* C11: a pattern is reported for a keyword exactly when some record with an
\* error status has a description containing it, letter case aside; its
\* frequency is the number of those records and its severity is high above
\* 10, medium above 5, low otherwise; records with another status do not
\* count, every reported pattern is one of the eight keywords, and an empty
\* list yields no analysis.
C11_ErrorPatterns ==
    tab = "ai" =>
        IF Len(data) = 0 THEN analysis = JsNull
        ELSE /\ analysis.t = "analysis"
             /\ Len(keywords) = 8
             /\ \A i \in 1..Len(analysis.errorPatterns) :
                   \E k \in 1..8 : analysis.errorPatterns[i].pattern = keywords[k]
             /\ \A k \in 1..8 :
                   LET n == Cardinality(ErrorMatches(keywords[k]))
                       entries == PatternEntries(keywords[k])
                   IN  /\ Cardinality(entries) = (IF n > 0 THEN 1 ELSE 0)
                       /\ \A i \in entries :
                            /\ analysis.errorPatterns[i].frequency = n
                            /\ analysis.errorPatterns[i].severity =
                                 (IF n > 10 THEN "high"
                                  ELSE IF n > 5 THEN "medium" ELSE "low")

\* a high, a medium and a low pattern together, one of them matched only
\* through upper-case letters, next to a record that contains a keyword but
\* has no error status
C11_Witness ==
    /\ tab = "ai"
    /\ Len(data) > 0
    /\ \E i, j, k \in 1..Len(analysis.errorPatterns) :
          /\ analysis.errorPatterns[i].severity = "high"
          /\ analysis.errorPatterns[j].severity = "medium"
          /\ analysis.errorPatterns[k].severity = "low"
    /\ \E i \in 1..Len(data) :
          /\ data[i].status = "200"
          /\ \E k \in 1..8 : ContainsIgnoringCase(data[i].desc_transaction,
                                                  keywords[k])
    /\ \E i \in ErrorMatches(keywords[3]) :
          ~includes(data[i].desc_transaction, keywords[3])

\* the lower-cased description up to its third space
KeyOf(desc) ==
    LET spaces == {i \in 1..Len(desc) : desc[i] = " "}
        third == {i \in spaces : Cardinality({j \in spaces : j < i}) = 2}
        stop == IF third = {} THEN Len(desc) + 1 ELSE CHOOSE i \in third : TRUE
    IN  [i \in 1..(stop - 1) |-> LowerChar(desc[i])]

DescriptionsOf(records) ==
    {records[i].desc_transaction : i \in 1..Len(records)}

\* the descriptions of the list that agree with desc on the first 3 words
ClassOf(desc) ==
    {other \in DescriptionsOf(data) : KeyOf(other) = KeyOf(desc)}

MembersOf(cluster) == {cluster.members[i] : i \in 1..Len(cluster.members)}

\* C12: the reported clusters are exactly the groups of two or more distinct
\* descriptions with the same first 3 words, letter case aside: two distinct
\* descriptions share a cluster exactly when those words agree, no
\* description is in two clusters, and a cluster's count is the number of
\* records whose description is in it.
C12_Clusters ==
    (tab = "ai" /\ Len(data) > 0) =>
        LET cs == analysis.clusters
        IN  /\ {MembersOf(cs[i]) : i \in 1..Len(cs)}
                 = {ClassOf(d) : d \in {e \in DescriptionsOf(data) :
                                          Cardinality(ClassOf(e)) >= 2}}
            /\ \A i \in 1..Len(cs) :
                 /\ Cardinality(MembersOf(cs[i])) = Len(cs[i].members)
                 /\ Cardinality(MembersOf(cs[i])) >= 2
                 /\ cs[i].count =
                      Cardinality({r \in 1..Len(data) :
                                     data[r].desc_transaction \in MembersOf(cs[i])})
            /\ \A i, j \in 1..Len(cs) :
                 i # j => MembersOf(cs[i]) \cap MembersOf(cs[j]) = {}

\* a cluster of two descriptions that differ in case and after the third
\* word, next to two descriptions alike in two words that stay unclustered
C12_Witness ==
    /\ tab = "ai"
    /\ Len(data) > 0
    /\ \E i \in 1..Len(analysis.clusters) :
          /\ analysis.clusters[i].count > Len(analysis.clusters[i].members)
          /\ \E d, e \in MembersOf(analysis.clusters[i]) :
                Len(d) # Len(e) /\ toLowerCase(d) # toLowerCase(e)
    /\ \E d, e \in DescriptionsOf(data) :
          /\ d # e
          /\ Slice(split(toLowerCase(d)), 2) = Slice(split(toLowerCase(e)), 2)
          /\ \A i \in 1..Len(analysis.clusters) :
                d \notin MembersOf(analysis.clusters[i])

-----------------------------------------------------------------------------
(* Properties of the query function: SpecFetch *)

\* the API client has thrown: no base URL, no response, a non-OK status, or
\* a body that is not a list, a wrapped list or a successful wrapped value
ClientThrew ==
    \/ Len(apiConfig.baseUrl) = 0
    \/ callResult.resp.kind = "network"
    \/ /\ callResult.resp.kind = "http"
       /\ \/ ~callResult.resp.ok
          \/ LET body == callResult.resp.body
             IN  /\ body.t # "array"
                 /\ \/ body.t # "object"
                    \/ /\ DataOf(body).t # "array"
                       /\ ~(Truthy(SuccessOf(body)) /\ Truthy(DataOf(body)))

\* C13: fetchCronjobData always returns: [] with no request and no toast
\* when no API is connected; [] with the 'API Error' toast when the API
\* client throws; and otherwise, with no toast, the list the client made of
\* the response, every record of which comes from the response body.
C13_FetchNeverFails ==
    (callResult.phase = "done" /\ callResult.op = "fetchCronjobData") =>
        LET r == callResult.result
        IN  /\ r.outcome = "return"
            /\ toasts = r.toasts
            /\ IF ~(useApiData /\ apiConfig # JsNull)
               THEN /\ r.value = <<>> /\ toasts = <<>>
                    /\ Len(callResult.requests) = 0
               ELSE IF ClientThrew
               THEN r.value = <<>> /\ toasts = <<"API Error">>
               ELSE /\ toasts = <<>>
                    /\ LET body == callResult.resp.body
                       IN  \/ body.t = "array" /\ r.value = body.v
                           \/ /\ body.t = "object"
                              /\ DataOf(body).t = "array"
                              /\ r.value = DataOf(body).v
                           \/ /\ body.t = "object"
                              /\ DataOf(body).t # "array"
                              /\ r.value = <<DataOf(body)>>

\* the client threw on a 200 response whose body is no list, and the
\* function returned [] with the toast
C13_Witness ==
    /\ callResult.phase = "done"
    /\ callResult.op = "fetchCronjobData"
    /\ useApiData /\ apiConfig = ConfigB
    /\ callResult.resp.kind = "http"
    /\ callResult.resp.ok
    /\ callResult.result.value = <<>>
    /\ toasts = <<"API Error">>

-----------------------------------------------------------------------------
(* Properties of the anomaly notifications: SpecAlerts *)

\* the alerts reported so far, newest first, after the notify effect has
\* reported the list `reported` on top of the alerts `earlier`
NewestFirst(reported, earlier) ==
    [ i \in 1..(Len(reported) + Len(earlier)) |->
        IF i <= Len(reported) THEN reported[Len(reported) + 1 - i]
        ELSE earlier[i - Len(reported)] ]

CriticalOf(reported) ==
    { i \in 1..Len(reported) : reported[i].severity = "critical" }

\* C15: whenever the notify effect has called handleAnomalyDetected for
\* every detected anomaly, liveAlerts holds at most 5 entries, they are the
\* most recently reported anomalies, newest first, and exactly the anomalies
\* of severity 'critical' raised a toast.
C15_LastFiveAlerts ==
    [][ (notify = "effect" /\ lastOp' = "notifyEffect") =>
          LET all == NewestFirst(anomalies, liveAlerts)
          IN  /\ Len(liveAlerts') <= 5
              /\ Len(liveAlerts') = IF Len(all) < 5 THEN Len(all) ELSE 5
              /\ \A i \in 1..Len(liveAlerts') : liveAlerts'[i] = all[i]
              /\ Len(toasts') = Cardinality(CriticalOf(anomalies))
              /\ \A i \in 1..Len(toasts') :
                     toasts'[i] = "Critical Anomaly Detected" ]_vars

\* the effect has reported between 2 and 4 anomalies, one of them critical
\* and one not, more than 5 alerts have been reported in all, and 5 are kept
C15_Witness ==
    /\ lastOp = "notifyEffect"
    /\ Len(anomalies) \in 2..4
    /\ Len(liveAlerts) = 5
    /\ toasts # <<>>
    /\ Len(toasts) < Len(anomalies)

\* C16: for an unchanged data list, whenever the notify effect of
\* VisualAnomalyDetector is scheduled, the cycle notify effect ->
\* handleAnomalyDetected -> setLiveAlerts -> render -> notify effect
\* eventually stops: no effect and no render is left pending.
C16_NotificationQuiesces == (notify = "effect") ~> (notify = "idle")

-----------------------------------------------------------------------------
(* Properties of the SnapshotManager: SpecSnap *)

\* the list without its i-th snapshot
WithoutIndex(list, i) == SubSeq(list, 1, i - 1) \o SubSeq(list, i + 1, Len(list))

\* C17: every createSnapshot and every deleteSnapshot leaves in
\* 'dashboard_snapshots' the serialised in-memory list; createSnapshot
\* appends exactly one snapshot to the unchanged earlier ones, and
\* deleteSnapshot removes exactly one snapshot, the others staying unchanged
\* and in order, also when two snapshots were created within one millisecond.
C17_SnapshotsPersisted ==
    [][ /\ lastOp' \in {"createSnapshot", "deleteSnapshot"} =>
              /\ snapshotStore' = SnapshotsText(snapshots')
              /\ InitialSnapshots(snapshotStore') = snapshots'
        /\ lastOp' = "createSnapshot" =>
              /\ Len(snapshots') = Len(snapshots) + 1
              /\ SubSeq(snapshots', 1, Len(snapshots)) = snapshots
        /\ lastOp' = "deleteSnapshot" =>
              \E i \in 1..Len(snapshots) :
                  snapshots' = WithoutIndex(snapshots, i) ]_vars

====
